---- MODULE Spec2Model ----
(***************************************************************************)
(* ZyteAPIClient (vianu/fraudcrawler/src/zyteapi.py): the blocking fetcher *)
(* get_details and the queue worker async_get_details with its per-URL     *)
(* retry loop _async_get_details_for_url and the request _aiohttp_post.    *)
(*                                                                         *)
(* One behaviour is one call on one client: either get_details(urls) or a  *)
(* pool of async_get_details workers sharing queue_in / queue_out.  The    *)
(* asyncio workers are cut at their await points (queue_in.get, the post,  *)
(* asyncio.sleep, the return/put); get_details is cut at the request and   *)
(* at time.sleep.  The API's answer to each request is drawn from          *)
(* Responses when the request completes.                                   *)
(*                                                                         *)
(* reqs, dly and log are history variables: per input position, the number *)
(* of requests issued, of retry delays waited, and the outcome of each     *)
(* finished attempt as the fetcher classified it.  Entries of products and *)
(* queue_out carry the input position they were produced for (field for).  *)
(* sent and outs are history variables too: per input position, the bodies *)
(* of the requests issued and the value the latest finished attempt of the *)
(* concurrent path left in `product`.                                      *)
(***************************************************************************)
EXTENDS Integers, Sequences, FiniteSets, TLC

\* ---- bounds of the model --------------------------------------------------
MaxUrls == 2
MaxRetries == 2
MaxWorkers == 2
MaxLimit == 2

\* ---- values ----------------------------------------------------------------
URLs == {"a", "b"}

\* the close sentinel on queue_in (zyteapi.py:129)
None == "None"

\* the value of `product` when no record is held (zyteapi.py:153)
NoProduct == [t |-> "none"]

\* `product` before the loop body ever ran: the local is unbound
Unbound == [t |-> "unbound"]

\* a JSON object without / with its own "url" key, a JSON array, a body that
\* is not JSON
BodyKinds == {"obj", "obj_url", "list", "garbage"}

Statuses == {200, 201, 304, 500}

Responses ==
  {[kind |-> "transport"]}
    \cup {[kind |-> "http", status |-> s, body |-> b] : s \in Statuses, b \in BodyKinds}

\* response.json() raises on a body that is not JSON
Parses(b) == b # "garbage"

\* response.json(): the parsed value of a body that parses
Json(b) ==
  CASE b = "obj" -> [t |-> "dict", name |-> "x", url |-> "absent"]
    [] b = "obj_url" -> [t |-> "dict", name |-> "x", url |-> "evil"]
    [] b = "list" -> [t |-> "list"]

\* product_data["url"] = url raises TypeError unless the value is a mapping
IsDict(v) == v.t = "dict"

\* product_data["url"] = url on a mapping: sets or overwrites the key
Tag(v, u) == [v EXCEPT !.url = u]

\* the class attribute _config (zyteapi.py:18-28)
Config0 ==
  [javascript |-> FALSE,
   browserHtml |-> FALSE,
   screenshot |-> FALSE,
   productOptions |-> [extractFrom |-> "httpResponseBody"],
   httpResponseBody |-> TRUE,
   geolocation |-> "CH",
   viewport |-> [width |-> 1280, height |-> 1080],
   actions |-> <<>>,
   product |-> TRUE]

\* json={"url": url, **self._config} (zyteapi.py:76-79): a new mapping in which
\* the keys of _config come last and so win over "url"
SeqPayload(c, u) == [k \in DOMAIN c \cup {"url"} |-> IF k \in DOMAIN c THEN c[k] ELSE u]

\* config = deepcopy(self._config); config["url"] = url (zyteapi.py:178-179)
AsyncPayload(c, u) == [k \in DOMAIN c \cup {"url"} |-> IF k = "url" THEN u ELSE c[k]]

\* variant of ConfigAfterPost: the url is written into the shared template
ConfigAfterPostNoCopy(c, u) == AsyncPayload(c, u)

\* _config after a request for URL u was built from it: the dict literal and
\* the deepcopy leave the class attribute as it was
ConfigAfterPost(c, u) == c

VARIABLES
  call, max_retries, async_limit_per_host, nworkers, input, config,
  s_pc, s_i, s_attempts, products,
  queue_in, queue_out, unfinished, deq, pc, url, at, attempts, product,
  reqs, dly, log, sent, outs

cfg == <<call, max_retries, async_limit_per_host, nworkers, input>>
seqv == <<s_pc, s_i, s_attempts, products>>
asyv == <<queue_in, queue_out, unfinished, deq, pc, url, at, attempts, product>>
hist == <<reqs, dly, log, sent, outs>>
vars == <<cfg, config, seqv, asyv, hist>>

Workers == 1..nworkers

\* all sequences over S of length at most n
SeqUpTo(S, n) == UNION {[1..k -> S] : k \in 0..n}

\* The URL lists fed to the client, up to renaming of URLs: "b" occurs only
\* after "a" has occurred.
UrlLists ==
  {us \in SeqUpTo(URLs, MaxUrls) :
     \A k \in 1..Len(us) : us[k] = "b" => \E j \in 1..(k - 1) : us[j] = "a"}

\* What the producer has put on queue_in behind the first close sentinel:
\* nothing, a second sentinel (one per worker), or one more URL.
Behind == {<<>>, <<None>>, <<"a">>}

\* ---- construction -----------------------------------------------------------
\* __init__ stores the retry policy and the per-host limit
ClientInit ==
  /\ max_retries \in 0..MaxRetries
  /\ async_limit_per_host \in 1..MaxLimit
  /\ config = Config0

HistInit ==
  /\ reqs = [k \in 1..Len(input) |-> 0]
  /\ dly = [k \in 1..Len(input) |-> 0]
  /\ log = [k \in 1..Len(input) |-> <<>>]
  /\ sent = [k \in 1..Len(input) |-> {}]
  /\ outs = [k \in 1..Len(input) |-> Unbound]

\* get_details(urls) is called: products = [] and the for loop is at urls[0]
InitSeq ==
  /\ call = "get_details"
  /\ ClientInit
  /\ nworkers = 1
  /\ input \in UrlLists
  /\ s_pc = "loop" /\ s_i = 1 /\ s_attempts = 0 /\ products = <<>>
  /\ queue_in = <<>> /\ queue_out = <<>> /\ unfinished = 0 /\ deq = 0
  /\ pc = [w \in Workers |-> "idle"]
  /\ url = [w \in Workers |-> None]
  /\ at = [w \in Workers |-> 0]
  /\ attempts = [w \in Workers |-> 0]
  /\ product = [w \in Workers |-> Unbound]
  /\ HistInit

\* the producer has put URLs, one close sentinel and possibly more items on
\* queue_in; nworkers tasks run async_get_details(queue_in, queue_out)
InitAsync ==
  /\ call = "async_get_details"
  /\ ClientInit
  /\ nworkers \in 1..MaxWorkers
  /\ \E us \in UrlLists, bs \in Behind :
       input = us \o <<None>> \o bs
  /\ s_pc = "idle" /\ s_i = 1 /\ s_attempts = 0 /\ products = <<>>
  /\ queue_in = input /\ queue_out = <<>> /\ unfinished = Len(input) /\ deq = 0
  /\ pc = [w \in Workers |-> "get"]
  /\ url = [w \in Workers |-> None]
  /\ at = [w \in Workers |-> 0]
  /\ attempts = [w \in Workers |-> 0]
  /\ product = [w \in Workers |-> Unbound]
  /\ HistInit

Init == InitSeq \/ InitAsync

\* ---- shared pieces of the two retry loops -----------------------------------
\* variant of Retry: the loop test is off by one
RetryOffByOne(a) == a <= max_retries

\* `while attempts < self._max_retries` (zyteapi.py:67 and :152)
Retry(a) == a < max_retries

\* variant of Caught: the handler is narrowed to request and parse errors
CaughtNarrow(exc) == exc \in {"ConnectionError", "ClientResponseError", "JSONDecodeError"}

\* `except Exception` (zyteapi.py:101 and :165) catches every error a request,
\* a status check, a parse or the tagging can raise
Caught(exc) == exc \in {"ConnectionError", "ClientResponseError", "JSONDecodeError", "TypeError"}

LogAttempt(k, ok) == log' = [log EXCEPT ![k] = Append(@, ok)]

\* ---- get_details (zyteapi.py:52-116) ----------------------------------------
\* what the body of the try block (zyteapi.py:68-100) comes to for response r
\* of a request for URL u: a tagged record, the status branch, or an exception
SeqTry(r, u) ==
  IF r.kind = "transport" THEN [t |-> "raise", exc |-> "ConnectionError"]
  ELSE IF r.status = 200
    THEN IF ~Parses(r.body) THEN [t |-> "raise", exc |-> "JSONDecodeError"]
         ELSE IF ~IsDict(Json(r.body)) THEN [t |-> "raise", exc |-> "TypeError"]
         ELSE [t |-> "ok", rec |-> Tag(Json(r.body), u)]
    ELSE [t |-> "status"]

\* variant of SeqAppend: the record is inserted at the front of the list
SeqAppendFront(ps, k, rec) == <<[for |-> k, item |-> rec]>> \o ps

\* products.append(product_data) (zyteapi.py:85)
SeqAppend(ps, k, rec) == Append(ps, [for |-> k, item |-> rec])

\* variant of SeqExhaust: an exhausted URL leaves a None entry
SeqExhaustNone(ps, k) == Append(ps, [for |-> k, item |-> NoProduct])

\* the while-else branch (zyteapi.py:111-112) only logs: nothing is appended
SeqExhaust(ps, k) == ps

\* the while test holds: requests.post is issued (zyteapi.py:67-81)
SeqPost ==
  /\ call = "get_details" /\ s_pc = "loop"
  /\ s_i <= Len(input) /\ Retry(s_attempts)
  /\ s_pc' = "post"
  /\ reqs' = [reqs EXCEPT ![s_i] = @ + 1]
  /\ sent' = [sent EXCEPT ![s_i] = @ \cup {SeqPayload(config, input[s_i])}]
  /\ config' = ConfigAfterPost(config, input[s_i])
  /\ UNCHANGED <<cfg, s_i, s_attempts, products, asyv, dly, log, outs>>

\* variant of SeqResponse: the break after a success is missing, the while
\* loop goes round again for the same URL
SeqResponseNoBreak(r) ==
  /\ call = "get_details" /\ s_pc = "post"
  /\ LET res == SeqTry(r, input[s_i]) IN
       IF res.t = "ok"
       THEN /\ products' = SeqAppend(products, s_i, res.rec)
            /\ LogAttempt(s_i, TRUE)
            /\ s_pc' = "loop"
            /\ UNCHANGED <<s_i, s_attempts, dly>>
       ELSE /\ LogAttempt(s_i, FALSE)
            /\ s_attempts' = s_attempts + 1
            /\ IF Retry(s_attempts')
               THEN s_pc' = "sleep" /\ dly' = [dly EXCEPT ![s_i] = @ + 1]
               ELSE s_pc' = "loop" /\ dly' = dly
            /\ UNCHANGED <<s_i, products>>
  /\ UNCHANGED <<cfg, config, asyv, reqs, sent, outs>>

\* variant of SeqResponse: the retry delay is waited after every failed
\* attempt, the last one included
SeqResponseSleepAlways(r) ==
  /\ call = "get_details" /\ s_pc = "post"
  /\ LET res == SeqTry(r, input[s_i]) IN
       IF res.t = "ok"
       THEN /\ products' = SeqAppend(products, s_i, res.rec)
            /\ LogAttempt(s_i, TRUE)
            /\ s_i' = s_i + 1 /\ s_attempts' = 0 /\ s_pc' = "loop"
            /\ dly' = dly
       ELSE /\ LogAttempt(s_i, FALSE)
            /\ s_attempts' = s_attempts + 1
            /\ s_pc' = "sleep" /\ dly' = [dly EXCEPT ![s_i] = @ + 1]
            /\ UNCHANGED <<s_i, products>>
  /\ UNCHANGED <<cfg, config, asyv, reqs, sent, outs>>

\* the request completes with response r (zyteapi.py:82-110)
SeqResponse(r) ==
  /\ call = "get_details" /\ s_pc = "post"
  /\ LET res == SeqTry(r, input[s_i]) IN
       IF res.t = "ok"
       THEN \* append and break; the for loop moves on to the next URL
            /\ products' = SeqAppend(products, s_i, res.rec)
            /\ LogAttempt(s_i, TRUE)
            /\ s_i' = s_i + 1 /\ s_attempts' = 0 /\ s_pc' = "loop"
            /\ dly' = dly
       ELSE IF res.t = "raise" /\ ~Caught(res.exc)
       THEN /\ s_pc' = "raised"
            /\ UNCHANGED <<s_i, s_attempts, products, dly, log>>
       ELSE \* status branch (95-100) and except branch (105-110) do the same
            /\ LogAttempt(s_i, FALSE)
            /\ s_attempts' = s_attempts + 1
            /\ IF Retry(s_attempts')
               THEN s_pc' = "sleep" /\ dly' = [dly EXCEPT ![s_i] = @ + 1]
               ELSE s_pc' = "loop" /\ dly' = dly
            /\ UNCHANGED <<s_i, products>>
  /\ UNCHANGED <<cfg, config, asyv, reqs, sent, outs>>

\* time.sleep(self._retry_delay) returns (zyteapi.py:100 and :110)
SeqWake ==
  /\ call = "get_details" /\ s_pc = "sleep"
  /\ s_pc' = "loop"
  /\ UNCHANGED <<cfg, config, s_i, s_attempts, products, asyv, hist>>

\* the while test fails without a break: while-else, pbar.update, next URL
SeqExhausted ==
  /\ call = "get_details" /\ s_pc = "loop"
  /\ s_i <= Len(input) /\ ~Retry(s_attempts)
  /\ products' = SeqExhaust(products, s_i)
  /\ s_i' = s_i + 1 /\ s_attempts' = 0
  /\ UNCHANGED <<cfg, config, s_pc, asyv, hist>>

\* the for loop is over: return products (zyteapi.py:115-116)
SeqReturn ==
  /\ call = "get_details" /\ s_pc = "loop"
  /\ s_i > Len(input)
  /\ s_pc' = "done"
  /\ UNCHANGED <<cfg, config, s_i, s_attempts, products, asyv, hist>>

\* ---- _aiohttp_post and _async_get_details_for_url (zyteapi.py:137-189) ------
\* response.raise_for_status() raises for a status of 400 and above
RaisesForStatus(st) == st >= 400

\* what one pass of the try block (zyteapi.py:154-164) comes to for response r
\* of the request for URL u: the value left in `product` and the exception
\* raised, if any.  _aiohttp_post raises before `product` is assigned; the
\* tagging product["url"] = url raises after it.
AsyncTry(r, u) ==
  IF r.kind = "transport" THEN [product |-> NoProduct, exc |-> "ConnectionError"]
  ELSE IF RaisesForStatus(r.status) THEN [product |-> NoProduct, exc |-> "ClientResponseError"]
  ELSE IF ~Parses(r.body) THEN [product |-> NoProduct, exc |-> "JSONDecodeError"]
  ELSE IF ~IsDict(Json(r.body)) THEN [product |-> Json(r.body), exc |-> "TypeError"]
  ELSE [product |-> Tag(Json(r.body), u), exc |-> "none"]

\* variant of IsClose: the sentinel is not recognised
IsCloseNever(u) == FALSE

\* `if url is None` (zyteapi.py:129)
IsClose(u) == u = None

\* variant of Put: a None result is dropped, as get_details drops it
PutDropNone(q, k, p) == IF p = NoProduct THEN q ELSE Append(q, [for |-> k, item |-> p])

\* await queue_out.put(product) (zyteapi.py:134); queue_out is unbounded
Put(q, k, p) == Append(q, [for |-> k, item |-> p])

\* ---- async_get_details (zyteapi.py:118-135) ---------------------------------
\* url = await queue_in.get(): waits while queue_in is empty.  On the close
\* sentinel: task_done and break.  Otherwise the worker enters
\* _async_get_details_for_url with attempts = 0 and no `product` yet.
AsyncGet(w) ==
  /\ call = "async_get_details" /\ w \in Workers /\ pc[w] = "get"
  /\ queue_in # <<>>
  /\ queue_in' = Tail(queue_in)
  /\ deq' = deq + 1
  /\ IF IsClose(Head(queue_in))
     THEN /\ unfinished' = unfinished - 1
          /\ pc' = [pc EXCEPT ![w] = "done"]
          /\ UNCHANGED <<url, at, attempts, product>>
     ELSE /\ url' = [url EXCEPT ![w] = Head(queue_in)]
          /\ at' = [at EXCEPT ![w] = deq + 1]
          /\ attempts' = [attempts EXCEPT ![w] = 0]
          /\ product' = [product EXCEPT ![w] = Unbound]
          /\ pc' = [pc EXCEPT ![w] = "loop"]
          /\ UNCHANGED unfinished
  /\ UNCHANGED <<cfg, config, seqv, queue_out, hist>>

\* the while test holds: product = None and _aiohttp_post issues the request
\* (zyteapi.py:152-158, 178-186)
AsyncPost(w) ==
  /\ call = "async_get_details" /\ w \in Workers /\ pc[w] = "loop"
  /\ Retry(attempts[w])
  /\ product' = [product EXCEPT ![w] = NoProduct]
  /\ reqs' = [reqs EXCEPT ![at[w]] = @ + 1]
  /\ sent' = [sent EXCEPT ![at[w]] = @ \cup {AsyncPayload(config, url[w])}]
  /\ config' = ConfigAfterPost(config, url[w])
  /\ pc' = [pc EXCEPT ![w] = "post"]
  /\ UNCHANGED <<cfg, seqv, queue_in, queue_out, unfinished, deq, url, at, attempts, dly, log, outs>>

\* variant of AsyncResponse: the attempt counter is kept on the client and so
\* shared by all workers
AsyncResponseSharedAttempts(w, r) ==
  /\ call = "async_get_details" /\ w \in Workers /\ pc[w] = "post"
  /\ LET res == AsyncTry(r, url[w]) IN
       /\ product' = [product EXCEPT ![w] = res.product]
       /\ outs' = [outs EXCEPT ![at[w]] = res.product]
       /\ LogAttempt(at[w], res.exc = "none")
       /\ attempts' = [v \in Workers |-> attempts[v] + 1]
       /\ IF Retry(attempts'[w])
          THEN /\ pc' = [pc EXCEPT ![w] = "sleep"]
               /\ dly' = [dly EXCEPT ![at[w]] = @ + 1]
          ELSE /\ pc' = [pc EXCEPT ![w] = "loop"]
               /\ dly' = dly
  /\ UNCHANGED <<cfg, config, seqv, queue_in, queue_out, unfinished, deq, url, at, reqs, sent>>

\* variant of AsyncResponse: the loop is left on the first success, as in
\* get_details (the attempt counter is put at its bound to end the loop)
AsyncResponseStopOnSuccess(w, r) ==
  /\ call = "async_get_details" /\ w \in Workers /\ pc[w] = "post"
  /\ LET res == AsyncTry(r, url[w]) IN
       /\ product' = [product EXCEPT ![w] = res.product]
       /\ outs' = [outs EXCEPT ![at[w]] = res.product]
       /\ LogAttempt(at[w], res.exc = "none")
       /\ attempts' = [attempts EXCEPT ![w] = IF res.exc = "none" THEN max_retries ELSE @ + 1]
       /\ IF Retry(attempts'[w])
          THEN /\ pc' = [pc EXCEPT ![w] = "sleep"]
               /\ dly' = [dly EXCEPT ![at[w]] = @ + 1]
          ELSE /\ pc' = [pc EXCEPT ![w] = "loop"]
               /\ dly' = dly
  /\ UNCHANGED <<cfg, config, seqv, queue_in, queue_out, unfinished, deq, url, at, reqs, sent>>

\* variant of AsyncResponse: the retry delay is skipped, the loop goes straight
\* to the next attempt
AsyncResponseNoDelay(w, r) ==
  /\ call = "async_get_details" /\ w \in Workers /\ pc[w] = "post"
  /\ LET res == AsyncTry(r, url[w]) IN
       /\ product' = [product EXCEPT ![w] = res.product]
       /\ outs' = [outs EXCEPT ![at[w]] = res.product]
       /\ LogAttempt(at[w], res.exc = "none")
       /\ attempts' = [attempts EXCEPT ![w] = @ + 1]
       /\ pc' = [pc EXCEPT ![w] = "loop"]
       /\ dly' = dly
  /\ UNCHANGED <<cfg, config, seqv, queue_in, queue_out, unfinished, deq, url, at, reqs, sent>>

\* the request completes with response r (zyteapi.py:158-172, 187-189): in the
\* try branch and in the except branch alike attempts += 1, then the retry
\* delay if attempts < max_retries
AsyncResponse(w, r) ==
  /\ call = "async_get_details" /\ w \in Workers /\ pc[w] = "post"
  /\ LET res == AsyncTry(r, url[w]) IN
       IF res.exc # "none" /\ ~Caught(res.exc)
       THEN /\ pc' = [pc EXCEPT ![w] = "raised"]
            /\ UNCHANGED <<attempts, product, dly, log, outs>>
       ELSE /\ product' = [product EXCEPT ![w] = res.product]
            /\ outs' = [outs EXCEPT ![at[w]] = res.product]
            /\ LogAttempt(at[w], res.exc = "none")
            /\ attempts' = [attempts EXCEPT ![w] = @ + 1]
            /\ IF Retry(attempts'[w])
               THEN /\ pc' = [pc EXCEPT ![w] = "sleep"]
                    /\ dly' = [dly EXCEPT ![at[w]] = @ + 1]
               ELSE /\ pc' = [pc EXCEPT ![w] = "loop"]
                    /\ dly' = dly
  /\ UNCHANGED <<cfg, config, seqv, queue_in, queue_out, unfinished, deq, url, at, reqs, sent>>

\* await asyncio.sleep(self._retry_delay) returns (zyteapi.py:164 and :172)
AsyncWake(w) ==
  /\ call = "async_get_details" /\ w \in Workers /\ pc[w] = "sleep"
  /\ pc' = [pc EXCEPT ![w] = "loop"]
  /\ UNCHANGED <<cfg, config, seqv, queue_in, queue_out, unfinished, deq, url, at, attempts, product, hist>>

\* the while test fails: return product (zyteapi.py:173), then
\* queue_out.put(product) and queue_in.task_done() (zyteapi.py:134-135).
\* With the loop body never run, `product` is unbound and the return raises
\* UnboundLocalError out of async_get_details.
AsyncReturn(w) ==
  /\ call = "async_get_details" /\ w \in Workers /\ pc[w] = "loop"
  /\ ~Retry(attempts[w])
  /\ IF product[w] = Unbound
     THEN /\ pc' = [pc EXCEPT ![w] = "raised"]
          /\ UNCHANGED <<queue_out, unfinished>>
     ELSE /\ queue_out' = Put(queue_out, at[w], product[w])
          /\ unfinished' = unfinished - 1
          /\ pc' = [pc EXCEPT ![w] = "get"]
  /\ UNCHANGED <<cfg, config, seqv, queue_in, deq, url, at, attempts, product, hist>>

\* ---- specifications ----------------------------------------------------------
Next ==
  \/ SeqPost
  \/ \E r \in Responses : SeqResponse(r)
  \/ SeqWake
  \/ SeqExhausted
  \/ SeqReturn
  \/ \E w \in Workers : AsyncGet(w)
  \/ \E w \in Workers : AsyncPost(w)
  \/ \E w \in Workers, r \in Responses : AsyncResponse(w, r)
  \/ \E w \in Workers : AsyncWake(w)
  \/ \E w \in Workers : AsyncReturn(w)

Spec == Init /\ [][Next]_vars

TypeOK ==
  /\ call \in {"get_details", "async_get_details"}
  /\ s_pc \in {"idle", "loop", "post", "sleep", "done", "raised"}
  /\ \A w \in Workers : pc[w] \in {"idle", "get", "loop", "post", "sleep", "done", "raised"}
  /\ unfinished >= 0

\* one step of get_details
Fetch ==
  \/ SeqPost
  \/ \E r \in Responses : SeqResponse(r)
  \/ SeqWake
  \/ SeqExhausted
  \/ SeqReturn

\* one step of worker w
Worker(w) ==
  \/ AsyncGet(w)
  \/ AsyncPost(w)
  \/ \E r \in Responses : AsyncResponse(w, r)
  \/ AsyncWake(w)
  \/ AsyncReturn(w)

\* get_details, or a single async_get_details task on the queues
Init1 == InitSeq \/ (InitAsync /\ nworkers = 1)

Spec1 == Init1 /\ [][Next]_vars

\* Every request and every retry delay completes, and the event loop runs
\* every task that is ready.
Fairness == WF_vars(Fetch) /\ \A w \in 1..MaxWorkers : WF_vars(Worker(w))

FairSpec1 == Spec1 /\ Fairness

\* ---- vocabulary of the properties -------------------------------------------
\* position of the first close sentinel in what was put on queue_in
SentinelAt == CHOOSE k \in 1..Len(input) : input[k] = None /\ \A j \in 1..(k - 1) : input[j] # None

\* number of URLs put on queue_in before the close sentinel
NumUrls == SentinelAt - 1

\* outcomes of the finished attempts for input position k
AllFailed(k) == \A j \in 1..Len(log[k]) : ~log[k][j]
SomeOk(k) == \E j \in 1..Len(log[k]) : log[k][j]

InFlight == Cardinality({w \in Workers : pc[w] = "post"})

\* a call succeeds when the status is 2xx and the body parses as a record
SpecSuccess(r) ==
  /\ r.kind = "http"
  /\ r.status \in 200..299
  /\ Parses(r.body)
  /\ IsDict(Json(r.body))

\* ---- properties --------------------------------------------------------------

\* C1 (concurrent accounting): with max_retries >= 1 and a single
\* async_get_details task fed N URLs and then the close sentinel, when the
\* task has returned queue_out holds exactly N items, the k-th of them for
\* the k-th dequeued URL, and none for the sentinel.  (What an item may
\* contain is the subject of C3 and C4.)
ConcurrentAccounting ==
  (call = "async_get_details" /\ nworkers = 1 /\ max_retries >= 1 /\ pc[1] = "done")
    => /\ Len(queue_out) = NumUrls
       /\ \A k \in 1..NumUrls : queue_out[k].for = k
       /\ \A j \in 1..Len(queue_out) : input[queue_out[j].for] # None

\* the task has returned after two URLs, the first given up, the second fetched
ConcurrentAccountingWitness ==
  /\ call = "async_get_details" /\ nworkers = 1 /\ max_retries >= 1
  /\ pc[1] = "done"
  /\ NumUrls = 2 /\ Len(queue_out) = 2
  /\ queue_out[1].item = NoProduct
  /\ queue_out[2].item # NoProduct

\* C2 (sequential accounting): when get_details returns, the output holds
\* exactly one record for each input position that succeeded on some attempt
\* and nothing for a position whose attempts were exhausted (no None, no
\* error entry); so its length is K <= N.
SequentialAccounting ==
  (call = "get_details" /\ s_pc = "done")
    => /\ Len(products) = Cardinality({k \in 1..Len(input) : SomeOk(k)})
       /\ \A k \in 1..Len(input) :
            Cardinality({j \in 1..Len(products) : products[j].for = k})
              = IF SomeOk(k) THEN 1 ELSE 0
       /\ \A j \in 1..Len(products) : IsDict(products[j].item)
       /\ Len(products) <= Len(input)

\* get_details has returned one record for two URLs: one URL succeeded on a
\* retry, the other used up its attempts
SequentialAccountingWitness ==
  /\ call = "get_details" /\ s_pc = "done"
  /\ Len(input) = 2 /\ Len(products) = 1
  /\ \E k \in 1..2 : SomeOk(k) /\ Len(log[k]) = 2
  /\ \E k \in 1..2 : AllFailed(k) /\ Len(log[k]) = max_retries

\* C3 (tagging): every record returned by get_details and every non-None
\* item put on queue_out is a mapping whose url field is the URL that was
\* requested for it, whatever the response body was.
Tagging ==
  /\ \A j \in 1..Len(products) :
       /\ IsDict(products[j].item)
       /\ products[j].item.url = input[products[j].for]
  /\ \A j \in 1..Len(queue_out) :
       queue_out[j].item # NoProduct
         => /\ IsDict(queue_out[j].item)
            /\ queue_out[j].item.url = input[queue_out[j].for]

\* C4 (absence marker only on total failure): in concurrent mode with
\* max_retries >= 1, None is on queue_out for a URL only if every attempt for
\* that URL failed, and a URL with a successful attempt has its record there.
AbsenceOnlyOnTotalFailure ==
  (call = "async_get_details" /\ max_retries >= 1)
    => \A j \in 1..Len(queue_out) :
         /\ queue_out[j].item = NoProduct => AllFailed(queue_out[j].for)
         /\ SomeOk(queue_out[j].for)
              => /\ IsDict(queue_out[j].item)
                 /\ queue_out[j].item.url = input[queue_out[j].for]

\* C5 (retry bound): in both modes a URL all of whose calls fail has at most
\* max_retries requests issued at any time, and exactly max_retries once it is
\* given up (get_details has moved past it, async_get_details has put its
\* item on queue_out).
RetryBound ==
  /\ \A k \in 1..Len(input) : AllFailed(k) => reqs[k] <= max_retries
  /\ call = "get_details"
       => \A k \in 1..Len(input) : (k < s_i /\ AllFailed(k)) => reqs[k] = max_retries
  /\ \A j \in 1..Len(queue_out) :
       AllFailed(queue_out[j].for) => reqs[queue_out[j].for] = max_retries

\* a URL has been given up as None on queue_out after max_retries = 2 failed
\* requests
RetryBoundWitness ==
  /\ call = "async_get_details" /\ max_retries = 2
  /\ \E j \in 1..Len(queue_out) :
       /\ queue_out[j].item = NoProduct
       /\ AllFailed(queue_out[j].for)
       /\ reqs[queue_out[j].for] = 2

\* C6 (concurrency bound): the number of requests in flight never exceeds
\* async_limit_per_host.
ConcurrencyBound == InFlight <= async_limit_per_host

\* C7 (sentinel forwarding): once a worker has exited on the close sentinel,
\* the sentinel is back on queue_in for its co-workers unless all of them have
\* exited too.
SentinelForwarding ==
  (\E w \in Workers : pc[w] = "done")
    => \/ \A w \in Workers : pc[w] = "done"
       \/ \E k \in 1..Len(queue_in) : queue_in[k] = None

\* C8 (pipeline termination): a single async_get_details task with
\* max_retries >= 1, fed N URLs and then the close sentinel, eventually
\* returns with exactly N entries on queue_out, provided every request and
\* every retry delay completes.
PipelineTermination ==
  (call = "async_get_details" /\ nworkers = 1 /\ max_retries >= 1)
    ~> (pc[1] = "done" /\ Len(queue_out) = NumUrls)

\* the task has returned after two URLs that each took two attempts
PipelineTerminationWitness ==
  /\ call = "async_get_details" /\ nworkers = 1 /\ max_retries = 2
  /\ pc[1] = "done"
  /\ NumUrls = 2 /\ Len(queue_out) = 2
  /\ dly[1] = 1 /\ dly[2] = 1

\* C9 (no per-URL failure escapes): with max_retries >= 1 neither
\* get_details nor an async_get_details worker ever ends in an exception; when
\* get_details has returned every input URL was requested, and when queue_in
\* is empty and no worker holds a URL every URL that was put on queue_in was
\* requested and has its item on queue_out.
NoFailureEscapes ==
  max_retries >= 1
    => /\ s_pc # "raised"
       /\ \A w \in Workers : pc[w] # "raised"
       /\ s_pc = "done" => \A k \in 1..Len(input) : reqs[k] >= 1
       /\ (call = "async_get_details" /\ queue_in = <<>>
             /\ \A w \in Workers : pc[w] \in {"get", "done"})
            => \A k \in 1..Len(input) :
                 input[k] # None
                   => reqs[k] >= 1 /\ \E j \in 1..Len(queue_out) : queue_out[j].for = k

\* get_details has returned after a first URL whose every attempt failed and a
\* second URL that was then fetched
NoFailureEscapesWitness ==
  /\ call = "get_details" /\ max_retries >= 1 /\ s_pc = "done"
  /\ Len(input) = 2
  /\ AllFailed(1) /\ Len(log[1]) = max_retries
  /\ SomeOk(2)

\* C10 (outcome classification): in both modes the fetcher records an attempt
\* as a success exactly when the response has a 2xx status and a body that
\* parses as a record, and a failure consumes one attempt.
OutcomeClassification ==
  [][ /\ \A r \in Responses :
           SeqResponse(r)
             => /\ log'[s_i][Len(log'[s_i])] <=> SpecSuccess(r)
                /\ ~SpecSuccess(r) => s_attempts' = s_attempts + 1
      /\ \A w \in 1..MaxWorkers, r \in Responses :
           AsyncResponse(w, r)
             => /\ log'[at[w]][Len(log'[at[w]])] <=> SpecSuccess(r)
                /\ ~SpecSuccess(r) => attempts'[w] = attempts[w] + 1
    ]_vars

\* index of the first successful attempt for input position k
FirstOk(k) == CHOOSE j \in 1..Len(log[k]) : log[k][j] /\ \A i \in 1..(j - 1) : ~log[k][i]

\* C11 (sequential stop on success): get_details issues no request for a URL
\* after its first successful attempt; the number of requests for a URL is the
\* index of that attempt, which is at most max_retries, and it is max_retries
\* for a URL that was given up.
SequentialStopOnSuccess ==
  call = "get_details"
    => \A k \in 1..Len(input) :
         /\ SomeOk(k) => reqs[k] = FirstOk(k) /\ FirstOk(k) <= max_retries
         /\ (k < s_i /\ AllFailed(k)) => reqs[k] = max_retries

\* Scenario B: max_retries = 2, a failed attempt and then a success for the
\* first URL: two requests, one record
SequentialStopOnSuccessWitness ==
  /\ call = "get_details" /\ max_retries = 2 /\ s_pc = "done"
  /\ Len(input) = 1
  /\ log[1] = <<FALSE, TRUE>>
  /\ reqs[1] = 2
  /\ Len(products) = 1

\* number of failed attempts logged for input position k
Failures(k) == Cardinality({j \in 1..Len(log[k]) : ~log[k][j]})

\* get_details sleeps only after a failed attempt that another attempt of the
\* same URL follows, and a URL that succeeded slept once per failure
DelayOnlyBetweenAttempts ==
  /\ s_pc = "sleep"
       => /\ Len(log[s_i]) >= 1
          /\ ~log[s_i][Len(log[s_i])]
          /\ Retry(s_attempts)
  /\ \A k \in 1..Len(input) : SomeOk(k) => dly[k] = Failures(k)

\* C12 as stated (sequential delay placement): the delay is waited only
\* between attempts, a URL that succeeds after f failures incurs f delays, and
\* an exhausted URL incurs exactly max_retries - 1 delays.
SequentialDelayPlacementAsStated ==
  call = "get_details"
    => /\ DelayOnlyBetweenAttempts
       /\ \A k \in 1..Len(input) :
            (k < s_i /\ AllFailed(k)) => dly[k] = max_retries - 1

\* C12 as amended: the same, but an exhausted URL incurs max_retries - 1
\* delays when max_retries >= 1 and none when max_retries = 0.
SequentialDelayPlacement ==
  call = "get_details"
    => /\ DelayOnlyBetweenAttempts
       /\ \A k \in 1..Len(input) :
            (k < s_i /\ AllFailed(k))
              => dly[k] = IF max_retries = 0 THEN 0 ELSE max_retries - 1

\* get_details has returned with max_retries = 2: the first URL succeeded
\* after one failure and one delay, the second was exhausted after one delay
SequentialDelayPlacementWitness ==
  /\ call = "get_details" /\ max_retries = 2 /\ s_pc = "done"
  /\ Len(input) = 2
  /\ log[1] = <<FALSE, TRUE>> /\ dly[1] = 1
  /\ log[2] = <<FALSE, FALSE>> /\ dly[2] = 1

\* requests issued for input position k whose outcome is not known yet
InFlightFor(k) == reqs[k] - Len(log[k])

\* some fetch is waiting the retry delay for input position k
Sleeping(k) ==
  \/ call = "get_details" /\ s_pc = "sleep" /\ s_i = k
  \/ \E w \in Workers : pc[w] = "sleep" /\ at[w] = k

\* C13 (per-URL attempt ordering): in both modes at most one request for a
\* dequeued URL is in flight, and while one is in flight every earlier attempt
\* has its outcome logged and every failed one was followed by a retry delay
\* that is over.
AttemptOrdering ==
  \A k \in 1..Len(input) :
    /\ InFlightFor(k) \in {0, 1}
    /\ InFlightFor(k) = 1 => dly[k] >= Failures(k) /\ ~Sleeping(k)

\* the second request for a URL is in flight after a failed first attempt and
\* one retry delay
AttemptOrderingWitness ==
  /\ call = "async_get_details"
  /\ \E w \in Workers :
       /\ pc[w] = "post"
       /\ reqs[at[w]] = 2
       /\ log[at[w]] = <<FALSE>>
       /\ dly[at[w]] = 1

\* the item for input position k is on queue_out
OnOut(k) == \E j \in 1..Len(queue_out) : queue_out[j].for = k

\* worker w holds a URL it has dequeued and is still fetching
Busy(w) == pc[w] \in {"loop", "post", "sleep"}

\* worker w has ended: async_get_details returned or raised
Ended(w) == pc[w] \in {"done", "raised"}

\* C14 (cooperative shutdown point): a worker ends only in the step in which
\* it dequeues the close sentinel, with the result of every URL it dequeued
\* before already on queue_out; an ended worker dequeues nothing more, and
\* what a single worker leaves on queue_in is what was enqueued behind the
\* sentinel.
CooperativeShutdown ==
  [][ /\ \A w \in Workers :
           (~Ended(w) /\ Ended(w)')
             => /\ pc[w] = "get" /\ pc'[w] = "done"
                /\ queue_in # <<>> /\ Head(queue_in) = None
                /\ queue_in' = Tail(queue_in)
                /\ at[w] # 0 => OnOut(at[w])
      /\ \A w \in Workers : Ended(w) => pc'[w] = pc[w] /\ at'[w] = at[w]
      /\ (\A k \in 1..deq : input[k] # None => OnOut(k) \/ \E w \in Workers : Busy(w) /\ at[w] = k)'
      /\ (nworkers = 1 /\ pc'[1] = "done")
           => queue_in' = SubSeq(input, SentinelAt + 1, Len(input))
    ]_vars

NoPerCallState ==
  call = "async_get_details"
    => /\ \A w \in Workers : Busy(w) => attempts[w] = Len(log[at[w]])
       /\ \A j \in 1..Len(queue_out) :
            LET k == queue_out[j].for
                item == queue_out[j].item
            IN /\ Len(log[k]) = max_retries /\ reqs[k] = max_retries
               /\ item = outs[k]
               /\ log[k][Len(log[k])] <=> (IsDict(item) /\ item.url = input[k])

\* two workers ran interleaved with max_retries = 2: the URL dequeued second
\* reached queue_out first, as a record, and the URL dequeued first, all of
\* whose attempts failed, followed as None
NoPerCallStateWitness ==
  /\ call = "async_get_details" /\ nworkers = 2 /\ max_retries = 2
  /\ Len(queue_out) = 2
  /\ queue_out[1].for = 2 /\ IsDict(queue_out[1].item)
  /\ queue_out[2].for = 1 /\ queue_out[2].item = NoProduct
  /\ AllFailed(1)

\* number of queue_in.task_done() calls so far
Acks == Len(input) - unfinished

\* close sentinels and URLs taken from queue_in so far
SentinelsTaken == Cardinality({k \in 1..deq : input[k] = None})
UrlsTaken == deq - SentinelsTaken

\* C17 (queue acknowledgement): there is one task_done per sentinel taken and
\* per item put on queue_out; every item taken from queue_in that no worker is
\* still fetching has been acknowledged; and whenever queue_in has no
\* unfinished items, queue_out holds as many items as URLs were dequeued.
QueueAcknowledgement ==
  call = "async_get_details"
    => /\ Acks = SentinelsTaken + Len(queue_out)
       /\ Acks = deq - Cardinality({w \in Workers : Busy(w)})
       /\ unfinished = 0 => Len(queue_out) = UrlsTaken

\* C18 (concurrent attempt count): with max_retries >= 1 every URL on
\* queue_out had exactly max_retries requests and max_retries - 1 retry
\* delays, whatever the outcomes; while a URL is being fetched a delay follows
\* every finished attempt but the max_retries-th, and only those.
ConcurrentAttemptCount ==
  (call = "async_get_details" /\ max_retries >= 1)
    => /\ \A j \in 1..Len(queue_out) :
            /\ reqs[queue_out[j].for] = max_retries
            /\ dly[queue_out[j].for] = max_retries - 1
       /\ \A w \in Workers :
            Busy(w)
              => /\ dly[at[w]] = IF Len(log[at[w]]) = max_retries
                                 THEN max_retries - 1
                                 ELSE Len(log[at[w]])
                 /\ pc[w] = "sleep" => Len(log[at[w]]) < max_retries

\* a URL whose first attempt succeeded is on queue_out after two requests and
\* one delay
ConcurrentAttemptCountWitness ==
  /\ call = "async_get_details" /\ max_retries = 2
  /\ \E j \in 1..Len(queue_out) :
       /\ log[queue_out[j].for][1]
       /\ reqs[queue_out[j].for] = 2
       /\ dly[queue_out[j].for] = 1

\* C19 (sequential output order): the records of get_details are in input
\* order: their input positions increase strictly along the list, so each
\* input occurrence has at most one record, and each record has the URL of
\* its position.
SequentialOutputOrder ==
  call = "get_details"
    => /\ \A i, j \in 1..Len(products) : i < j => products[i].for < products[j].for
       /\ \A j \in 1..Len(products) :
            /\ products[j].for \in 1..Len(input)
            /\ products[j].item.url = input[products[j].for]

\* get_details has returned the records of the two URLs "a", "b" in that order
SequentialOutputOrderWitness ==
  /\ call = "get_details" /\ s_pc = "done"
  /\ input = <<"a", "b">>
  /\ Len(products) = 2
  /\ products[1].item.url = "a" /\ products[2].item.url = "b"

====
